---- MODULE Spec2Model ----
(***************************************************************************)
(* Model of pi_bbp_mpi.c: the BBP series for pi summed by the ranks of an  *)
(* MPI group.  Every rank sums the terms k = rank, rank+size, ... below    *)
(* num_terms; the ranks other than 0 print their partial sum as a decimal  *)
(* string and send it to rank 0, which parses and adds the strings in rank *)
(* order and prints the digits.                                            *)
(*                                                                         *)
(* GMP's mpf values are modelled as signed binary fixed-point numbers.  An *)
(* mpf of precision p holds at least p significant bits and every mpf      *)
(* function computes the exact result truncated to the destination; the    *)
(* values of this program are below 4 in magnitude, so a value keeps at    *)
(* least p - 2 bits after the binary point.  The model keeps exactly that  *)
(* many (FracBits) and truncates toward zero: it is the least accurate     *)
(* arithmetic the library's contract allows for this program.              *)
(***************************************************************************)
EXTENDS Integers, Sequences, FiniteSets, TLC

(***************************************************************************)
(* Natural numbers of any size: little-endian sequences of limbs below     *)
(* Base, without leading (most significant) zero limbs.  <<>> is zero.     *)
(* The operations are functions, so that their arguments are values.       *)
(***************************************************************************)
LimbBits == 15

Base == 2^LimbBits

Big == Seq(Nat)

BigOfNat[n \in Nat] ==
    IF n = 0 THEN <<>> ELSE <<n % Base>> \o BigOfNat[n \div Base]

BigToNat[a \in Big] == IF a = <<>> THEN 0 ELSE a[1] + Base * BigToNat[Tail(a)]

BigNorm[a \in Big] ==
    IF a = <<>> THEN <<>>
    ELSE IF a[Len(a)] = 0 THEN BigNorm[SubSeq(a, 1, Len(a) - 1)]
    ELSE a

Limb(a, i) == IF i <= Len(a) THEN a[i] ELSE 0

BigAddFrom[a \in Big, b \in Big, i \in Nat, carry \in Nat] ==
    IF i > Len(a) /\ i > Len(b)
    THEN (IF carry = 0 THEN <<>> ELSE <<carry>>)
    ELSE LET s == Limb(a, i) + Limb(b, i) + carry
         IN  <<s % Base>> \o BigAddFrom[a, b, i + 1, s \div Base]

BigAdd[a \in Big, b \in Big] == BigAddFrom[a, b, 1, 0]

\* a - b for a >= b
BigSubFrom[a \in Big, b \in Big, i \in Nat, borrow \in Nat] ==
    IF i > Len(a) THEN <<>>
    ELSE LET s == a[i] - Limb(b, i) - borrow
         IN  IF s < 0
             THEN <<s + Base>> \o BigSubFrom[a, b, i + 1, 1]
             ELSE <<s>> \o BigSubFrom[a, b, i + 1, 0]

BigSub[a \in Big, b \in Big] == BigNorm[BigSubFrom[a, b, 1, 0]]

\* -1, 0, 1 as a < b, a = b, a > b: the most significant differing limb decides
BigCmpFrom[a \in Big, b \in Big, i \in Nat] ==
    IF i = 0 THEN 0
    ELSE IF a[i] < b[i] THEN -1
    ELSE IF a[i] > b[i] THEN 1
    ELSE BigCmpFrom[a, b, i - 1]

BigCmp[a \in Big, b \in Big] ==
    IF Len(a) < Len(b) THEN -1
    ELSE IF Len(a) > Len(b) THEN 1
    ELSE BigCmpFrom[a, b, Len(a)]

BigLess(a, b) == BigCmp[a, b] < 0

\* a * n for 0 <= n <= Base
BigMulFrom[a \in Big, n \in Nat, i \in Nat, carry \in Nat] ==
    IF i > Len(a) THEN BigOfNat[carry]
    ELSE LET p == a[i] * n + carry
         IN  <<p % Base>> \o BigMulFrom[a, n, i + 1, p \div Base]

BigMulSmall[a \in Big, n \in Nat] ==
    IF n = 0 THEN <<>> ELSE BigMulFrom[a, n, 1, 0]

\* <<a \div n, a % n>> for 0 < n <= Base: long division from the top limb down
BigDivFrom[a \in Big, n \in Nat, i \in Nat, rem \in Nat, acc \in Big] ==
    IF i = 0 THEN <<BigNorm[acc], rem>>
    ELSE LET cur == rem * Base + a[i]
         IN  BigDivFrom[a, n, i - 1, cur % n, <<cur \div n>> \o acc]

BigDivMod[a \in Big, n \in Nat] == BigDivFrom[a, n, Len(a), 0, <<>>]

BigDivSmall[a \in Big, n \in Nat] == BigDivMod[a, n][1]

Zeros(n) == [i \in 1..n |-> 0]

\* a * 2^s
BigShl[a \in Big, s \in Nat] ==
    IF a = <<>> THEN <<>>
    ELSE Zeros(s \div LimbBits) \o BigMulSmall[a, 2^(s % LimbBits)]

\* a \div 2^s
BigShr[a \in Big, s \in Nat] ==
    IF s \div LimbBits >= Len(a) THEN <<>>
    ELSE BigDivSmall[SubSeq(a, s \div LimbBits + 1, Len(a)), 2^(s % LimbBits)]

\* a * 10^n
BigMulPow10[a \in Big, n \in Nat] ==
    IF n = 0 \/ a = <<>> THEN a ELSE BigMulPow10[BigMulSmall[a, 10], n - 1]

\* a \div 10^n
BigDivPow10[a \in Big, n \in Nat] ==
    IF n = 0 \/ a = <<>> THEN a ELSE BigDivPow10[BigDivSmall[a, 10], n - 1]

\* a * Base
BigShiftLimb[a \in Big] == IF a = <<>> THEN <<>> ELSE <<0>> \o a

\* a * b, one limb of b at a time
BigMulFromLimb[a \in Big, b \in Big, i \in Nat] ==
    IF i > Len(b) THEN <<>>
    ELSE BigAdd[BigMulSmall[a, b[i]], BigShiftLimb[BigMulFromLimb[a, b, i + 1]]]

BigMul[a \in Big, b \in Big] ==
    IF a = <<>> THEN <<>> ELSE BigMulFromLimb[a, b, 1]

\* one step of binary long division: from <<a \div 2b, a % 2b>> to
\* <<a \div b, a % b>>
BigDivStep[qr \in Seq(Big), b \in Big] ==
    IF BigLess(qr[2], b)
    THEN <<BigMulSmall[qr[1], 2], qr[2]>>
    ELSE <<BigAdd[BigMulSmall[qr[1], 2], <<1>>], BigSub[qr[2], b]>>

\* <<a \div b, a % b>> for b > 0
BigDivModBig[a \in Big, b \in Big] ==
    IF BigLess(a, b) THEN <<(<<>>), a>>
    ELSE BigDivStep[BigDivModBig[a, BigMulSmall[b, 2]], b]

\* e + 1 for an exponent e, -1 staying "none"
NextExponent[e \in Int] == IF e < 0 THEN -1 ELSE e + 1

\* the exponent e when n = 2^e, and -1 when n is no power of two
Log2Small[n \in Nat] ==
    IF n = 1 THEN 0
    ELSE IF n % 2 = 1 THEN -1
    ELSE NextExponent[Log2Small[n \div 2]]

\* the exponent e when a = 2^e, and -1 when a is no power of two
BigLog2Exact[a \in Big] ==
    IF a = <<>> THEN -1
    ELSE IF \E i \in 1..(Len(a) - 1) : a[i] # 0 THEN -1
    ELSE IF Log2Small[a[Len(a)]] < 0 THEN -1
    ELSE (Len(a) - 1) * LimbBits + Log2Small[a[Len(a)]]

\* a \div b for b > 0; a divisor that is a power of two is a shift
BigDiv[a \in Big, b \in Big] ==
    IF BigLog2Exact[b] >= 0 THEN BigShr[a, BigLog2Exact[b]]
    ELSE BigDivModBig[a, b][1]

(***************************************************************************)
(* mpf_t: a sign and a magnitude scaled by 2^f, f the bits kept after the  *)
(* binary point.  Zero has neg = FALSE.                                    *)
(***************************************************************************)
FracBits(prec) == prec - 2

Mpfs == [neg : BOOLEAN, mag : Big]

Mpf[neg \in BOOLEAN, mag \in Big] == [neg |-> neg /\ mag # <<>>, mag |-> mag]

\* mpf_init: a fresh mpf_t is 0
mpf_init == Mpf[FALSE, <<>>]

mpf_set_ui[n \in Nat, f \in Nat] == Mpf[FALSE, BigShl[BigOfNat[n], f]]

mpf_neg[x \in Mpfs] == Mpf[~x.neg, x.mag]

mpf_add[x \in Mpfs, y \in Mpfs] ==
    IF x.neg = y.neg THEN Mpf[x.neg, BigAdd[x.mag, y.mag]]
    ELSE IF BigLess(x.mag, y.mag) THEN Mpf[y.neg, BigSub[y.mag, x.mag]]
    ELSE Mpf[x.neg, BigSub[x.mag, y.mag]]

mpf_sub[x \in Mpfs, y \in Mpfs] == mpf_add[x, mpf_neg[y]]

mpf_sub_ui[x \in Mpfs, n \in Nat, f \in Nat] == mpf_sub[x, mpf_set_ui[n, f]]

\* the quotient truncated toward zero
mpf_div_ui[x \in Mpfs, n \in Nat] == Mpf[x.neg, BigDivSmall[x.mag, n]]

mpf_div[x \in Mpfs, y \in Mpfs, f \in Nat] ==
    Mpf[x.neg # y.neg, BigDiv[BigShl[x.mag, f], y.mag]]

mpf_mul[x \in Mpfs, y \in Mpfs, f \in Nat] ==
    Mpf[x.neg # y.neg, BigShr[BigMul[x.mag, y.mag], f]]

\* x^n by squaring, as mpf_pow_ui does
mpf_pow_ui[x \in Mpfs, n \in Nat, f \in Nat] ==
    IF n = 0 THEN mpf_set_ui[1, f]
    ELSE IF n = 1 THEN x
    ELSE LET h == mpf_pow_ui[x, n \div 2, f]
         IN  IF n % 2 = 1 THEN mpf_mul[mpf_mul[h, h, f], x, f]
             ELSE mpf_mul[h, h, f]

(***************************************************************************)
(* compute_bbp_term: the k-th term of the series,                          *)
(*   (1/16^k) * (4/(8k+1) - 2/(8k+4) - 1/(8k+5) - 1/(8k+6))                *)
(***************************************************************************)
compute_bbp_term[k \in Nat, f \in Nat] ==
    LET k8      == 8 * k
        power16 == mpf_pow_ui[mpf_set_ui[16, f], k, f]
        term1   == mpf_div_ui[mpf_set_ui[4, f], k8 + 1]
        term2   == mpf_div_ui[mpf_set_ui[2, f], k8 + 4]
        term3   == mpf_div_ui[mpf_set_ui[1, f], k8 + 5]
        term4   == mpf_div_ui[mpf_set_ui[1, f], k8 + 6]
        temp    == mpf_sub[mpf_sub[mpf_sub[term1, term2], term3], term4]
    IN  mpf_div[temp, power16, f]

(***************************************************************************)
(* Strings are sequences of one-character strings.                         *)
(***************************************************************************)
Str == Seq(STRING)

DigitChars == <<"0", "1", "2", "3", "4", "5", "6", "7", "8", "9">>

DigitChar(d) == DigitChars[d + 1]

CharDigit(c) == CHOOSE d \in 0..9 : DigitChars[d + 1] = c

\* the decimal digits of a, most significant first, at least `least` of them
DecDigits[a \in Big, least \in Int] ==
    IF a = <<>> /\ least <= 0 THEN <<>>
    ELSE Append(DecDigits[BigDivMod[a, 10][1], least - 1],
                DigitChar(BigDivMod[a, 10][2]))

\* the number the digits of str from place i on write after those of acc
DecValueFrom[str \in Str, i \in Nat, acc \in Big] ==
    IF i > Len(str) THEN acc
    ELSE DecValueFrom[str, i + 1,
                      BigAdd[BigMulSmall[acc, 10], BigOfNat[CharDigit(str[i])]]]

DecValue[str \in Str] == DecValueFrom[str, 1, <<>>]

strlen(str) == Len(str)

(***************************************************************************)
(* gmp_sprintf(buffer, "%.*Ff", n, x): x in fixed notation with n digits   *)
(* after the point, rounded to nearest (half away from zero): a "-" when x *)
(* is negative, the integer digits (at least one), ".", n digits.          *)
(***************************************************************************)
\* the digits of round(mag * 10^n / 2^f), at least n + 1 of them
RoundedDigits[mag \in Big, n \in Nat, f \in Nat] ==
    DecDigits[BigShr[BigAdd[BigMulSmall[BigMulPow10[mag, n], 2],
                            BigShl[<<1>>, f]], f + 1], n + 1]

FixedNotation[neg \in BOOLEAN, ds \in Str, n \in Nat] ==
    (IF neg THEN <<"-">> ELSE <<>>) \o SubSeq(ds, 1, Len(ds) - n)
    \o (IF n > 0 THEN <<".">> \o SubSeq(ds, Len(ds) - n + 1, Len(ds)) ELSE <<>>)

gmp_sprintf_Ff[n \in Nat, x \in Mpfs, f \in Nat] ==
    FixedNotation[x.neg, RoundedDigits[x.mag, n, f], n]

(***************************************************************************)
(* mpf_set_str(x, str, 10): the value a decimal string writes, truncated   *)
(* to the precision of x.                                                  *)
(***************************************************************************)
PointAt[str \in Str] ==
    IF \E i \in 1..Len(str) : str[i] = "."
    THEN CHOOSE i \in 1..Len(str) : str[i] = "."
    ELSE Len(str) + 1

Unsigned[str \in Str] ==
    IF str # <<>> /\ str[1] = "-" THEN Tail(str) ELSE str

mpf_set_str[str \in Str, f \in Nat] ==
    LET body == Unsigned[str]
        pt   == PointAt[body]
        int  == SubSeq(body, 1, pt - 1)
        frac == SubSeq(body, pt + 1, Len(body))
    IN  Mpf[str # <<>> /\ str[1] = "-",
            BigDivPow10[BigShl[DecValue[int \o frac], f], Len(frac)]]

(***************************************************************************)
(* C int arithmetic.  A sum that leaves the range of int is undefined      *)
(* behaviour: a build either wraps it modulo 2^32 or traps.  IntAdd gives  *)
(* the set of outcomes of a + b for b >= 0.                                *)
(***************************************************************************)
IntMax == 2147483647

IntMin == -IntMax - 1

IntAdd(a, b) ==
    IF a <= IntMax - b
    THEN {[trap |-> FALSE, val |-> a + b]}
    ELSE {[trap |-> FALSE, val |-> ((a - IntMax - 1) + b) + IntMin],
          [trap |-> TRUE, val |-> 0]}

(***************************************************************************)
(* The precision plan.                                                     *)
(***************************************************************************)
PrecisionMargin == 64

TermMargin == 10

SendMargin == 20

BufferMargin == 100

\* (unsigned long)(digits * 3.5 + 64): the double product and sum are exact
\* for every int, and the conversion drops the fraction.  An unsigned long
\* of 64 bits holds the value; it is kept as a Big natural here.
calculate_precision_big(digits) ==
    BigAdd[BigDivSmall[BigMulSmall[BigOfNat[digits], 7], 2],
           BigOfNat[PrecisionMargin]]

calculate_precision(digits) == BigToNat[calculate_precision_big(digits)]

\* digits + 10 in int: the outcomes of the addition
calculate_num_terms(digits) == IntAdd(digits, TermMargin)

(***************************************************************************)
(* compute_local_sum: the terms k = rank, rank + size, ... below num_terms *)
(* added to local_sum, which starts from 0.  `visited` records the indices *)
(* handed to compute_bbp_term, in order.                                   *)
(***************************************************************************)
LoopStart(rank) == rank

\* the test off by one: the index num_terms is let in
LoopCondInclusive(k, num_terms) == k <= num_terms

LoopCond(k, num_terms) == k < num_terms

\* the stride forgotten: every rank walks on index by index
LoopNextUnstrided(k, size) == k + 1

LoopNext(k, size) == k + size

\* local_sum and the indices visited so far
SumStates == [sum : Mpfs, visited : Seq(Int)]

LocalSumLoop[k \in Int, n \in Int, t \in Int, f \in Nat, st \in SumStates] ==
    IF LoopCond(k, t)
    THEN LocalSumLoop[LoopNext(k, n), n, t, f,
                      [sum     |-> mpf_add[st.sum, compute_bbp_term[k, f]],
                       visited |-> Append(st.visited, k)]]
    ELSE st

compute_local_sum(rank, n, num_terms, f) ==
    LocalSumLoop[LoopStart(rank), n, num_terms, f,
                 [sum |-> mpf_set_ui[0, f], visited |-> <<>>]]

(***************************************************************************)
(* aggregate_results, the parts that are functions of the arguments.       *)
(***************************************************************************)
\* the buffer sized for the digits alone
BufferSizeDigitsOnly(digits) == digits + SendMargin

BufferSize(digits) == digits + BufferMargin

\* the margin left out and a digit dropped
SendDigitsShort(digits) == digits - 1

SendDigits(digits) == digits + SendMargin

\* the buffer a rank other than 0 writes, without the terminating NUL
SendBuffer(sum, d, f) == gmp_sprintf_Ff[SendDigits(d), sum, f]

\* MPI_Send(buffer, strlen(buffer) + 1, MPI_CHAR, 0, 0, MPI_COMM_WORLD)
SendDest == 0

SendMessage(buffer) ==
    [dest |-> SendDest, count |-> strlen(buffer) + 1, data |-> buffer]

\* MPI_ANY_SOURCE in place of src
RecvMatchesAny(source, from) == TRUE

\* MPI_Recv(buffer, buffer_size, MPI_CHAR, src, ...): the sender it matches
RecvMatches(source, from) == from = source

RecvFirst == 1

\* the loop stops one rank short
RecvLoopCondShort(source, size) == source < size - 1

\* the loop goes one rank too far
RecvLoopCondLong(source, size) == source <= size

RecvLoopCond(source, size) == source < size

(***************************************************************************)
(* print_pi: "3." and the digits of pi - 3 after the point.  The blanks    *)
(* and line breaks between groups of digits are left out.                  *)
(***************************************************************************)
DecimalPart[str \in Str, d \in Int] ==
    LET decimal_part == SubSeq(str, 3, Len(str))
        len          == IF strlen(decimal_part) > d
                        THEN d ELSE strlen(decimal_part)
    IN  SubSeq(decimal_part, 1, len)

print_pi(value, d, f) ==
    DecimalPart[gmp_sprintf_Ff[d, mpf_sub_ui[value, 3, f], f], d]

(***************************************************************************)
(* The bounds of the model.  A run is given its argument on the command    *)
(* line (argc > 1); a run without one is the run with the argument 100.    *)
(***************************************************************************)
MaxDigits == 3

MaxSize == 4

InvalidArgs == {-1, 0}

ArgValues == InvalidArgs \cup (1..MaxDigits)

VARIABLES
    size,        \* MPI_Comm_size: the number of ranks
    arg,         \* atoi(argv[1])
    pc,          \* where each rank is in main
    digits,      \* each rank's digits
    precision,   \* each rank's precision
    num_terms,   \* each rank's num_terms
    local_sum,   \* each rank's local_sum
    visited,     \* each rank's indices handed to compute_bbp_term, in order
    pi,          \* rank 0's pi
    src,         \* rank 0's loop variable in aggregate_results
    chan,        \* per sender, the messages sent and not yet received
    sends,       \* per rank, the destinations of the sends it has issued
    recvs,       \* the senders matched by rank 0's receives, in order
    addends,     \* the values of received_sum added to pi, in order
    stdout,      \* the digits rank 0 has printed
    stderr,      \* the ranks that have printed the usage message, in order
    exit_code,   \* each rank's exit code, -1 while it runs
    plan         \* the precision planner run alone (PlanSpec)

vars == <<size, arg, pc, digits, precision, num_terms, local_sum, visited, pi,
          src, chan, sends, recvs, addends, stdout, stderr, exit_code, plan>>

Ranks == 0..(size - 1)

NoPlan == [stage |-> "none", digits |-> 0, precision |-> <<>>,
           num_terms |-> 0]

DefaultDigits == 100

\* a group of n ranks with argument a, every rank at `at` in main with the
\* given digits, precision and num_terms
InitGroup(n, a, at, d, p, t) ==
    /\ size = n
    /\ arg = a
    /\ pc = [r \in 0..(n - 1) |-> at]
    /\ digits = [r \in 0..(n - 1) |-> d]
    /\ precision = [r \in 0..(n - 1) |-> p]
    /\ num_terms = [r \in 0..(n - 1) |-> t]
    /\ local_sum = [r \in 0..(n - 1) |-> mpf_init]
    /\ visited = [r \in 0..(n - 1) |-> <<>>]
    /\ pi = mpf_init
    /\ src = 0
    /\ chan = [r \in 0..(n - 1) |-> <<>>]
    /\ sends = [r \in 0..(n - 1) |-> <<>>]
    /\ recvs = <<>>
    /\ addends = <<>>
    /\ stdout = <<>>
    /\ stderr = <<>>
    /\ exit_code = [r \in 0..(n - 1) |-> -1]

Init ==
    /\ \E n \in 1..MaxSize, a \in ArgValues :
        InitGroup(n, a, "start", DefaultDigits, 0, 0)
    /\ plan = NoPlan

\* zero let through
InvalidInputNegative(d) == d < 0

InvalidInput(d) == d < 1

PrintsUsage(rank) == rank = 0

groupVars == <<size, arg>>

planVars == <<digits, precision, num_terms>>

sumVars == <<local_sum, visited>>

coordVars == <<pi, src, recvs, addends>>

(***************************************************************************)
(* main, lines 155-175: the argument is read and checked, and the plan is  *)
(* computed.  An invalid argument ends the rank with exit code 1.          *)
(***************************************************************************)
Start(r) ==
    /\ pc[r] = "start"
    /\ digits' = [digits EXCEPT ![r] = arg]
    /\ IF InvalidInput(arg)
       THEN /\ stderr' = IF PrintsUsage(r) THEN Append(stderr, r) ELSE stderr
            /\ pc' = [pc EXCEPT ![r] = "done"]
            /\ exit_code' = [exit_code EXCEPT ![r] = 1]
            /\ UNCHANGED <<precision, num_terms>>
       ELSE \E nt \in calculate_num_terms(arg) :
            /\ precision' = [precision EXCEPT ![r] = calculate_precision(arg)]
            /\ num_terms' = [num_terms EXCEPT ![r] = nt.val]
            /\ pc' = [pc EXCEPT ![r] = IF nt.trap THEN "aborted" ELSE "compute"]
            /\ UNCHANGED <<stderr, exit_code>>
    /\ UNCHANGED <<groupVars, sumVars, coordVars, chan, sends, stdout, plan>>

\* main, line 184
ComputeLocalSum(r) ==
    /\ pc[r] = "compute"
    /\ LET res == compute_local_sum(r, size, num_terms[r], FracBits(precision[r]))
       IN  /\ local_sum' = [local_sum EXCEPT ![r] = res.sum]
           /\ visited' = [visited EXCEPT ![r] = res.visited]
    /\ pc' = [pc EXCEPT ![r] = "aggregate"]
    /\ UNCHANGED <<groupVars, planVars, coordVars, chan, sends, stdout, stderr,
                   exit_code, plan>>

\* aggregate_results on rank 0, lines 91-97: pi starts from the rank's own sum
AggregateBegin ==
    /\ pc[0] = "aggregate"
    /\ pi' = local_sum[0]
    /\ src' = RecvFirst
    /\ pc' = [pc EXCEPT ![0] = "recv"]
    /\ UNCHANGED <<groupVars, planVars, sumVars, recvs, addends, chan, sends,
                   stdout, stderr, exit_code, plan>>

\* one turn of the loop of lines 99-103: the blocking receive returns once the
\* first message of a matching sender is there; a message longer than the
\* count of the receive is an error, which aborts the rank
Recv ==
    /\ pc[0] = "recv"
    /\ RecvLoopCond(src, size)
    /\ \E from \in Ranks :
        /\ RecvMatches(src, from)
        /\ chan[from] # <<>>
        /\ Head(chan[from]).dest = 0
        /\ chan' = [chan EXCEPT ![from] = Tail(@)]
        /\ recvs' = Append(recvs, from)
        /\ IF Head(chan[from]).count > BufferSize(digits[0])
           THEN /\ pc' = [pc EXCEPT ![0] = "aborted"]
                /\ UNCHANGED <<pi, src, addends>>
           ELSE LET received_sum == mpf_set_str[Head(chan[from]).data,
                                                FracBits(precision[0])]
                IN  /\ pi' = mpf_add[pi, received_sum]
                    /\ addends' = Append(addends, received_sum)
                    /\ src' = src + 1
                    /\ UNCHANGED pc
    /\ UNCHANGED <<groupVars, planVars, sumVars, sends, stdout, stderr,
                   exit_code, plan>>

\* the loop of lines 99-103 ends
AggregateEnd ==
    /\ pc[0] = "recv"
    /\ ~RecvLoopCond(src, size)
    /\ pc' = [pc EXCEPT ![0] = "render"]
    /\ UNCHANGED <<groupVars, planVars, sumVars, coordVars, chan, sends, stdout,
                   stderr, exit_code, plan>>

\* aggregate_results on the other ranks, lines 107-109.  MPI_Send returns at
\* once when the library buffers the message (eager) and otherwise only when
\* the receive has matched it.
Send(r) ==
    /\ r # 0
    /\ pc[r] = "aggregate"
    /\ LET buffer == SendBuffer(local_sum[r], digits[r], FracBits(precision[r]))
       IN  chan' = [chan EXCEPT ![r] = Append(@, SendMessage(buffer))]
    /\ sends' = [sends EXCEPT ![r] = Append(@, SendDest)]
    /\ \E eager \in BOOLEAN :
        pc' = [pc EXCEPT ![r] = IF eager THEN "finalize" ELSE "send_wait"]
    /\ UNCHANGED <<groupVars, planVars, sumVars, coordVars, stdout, stderr,
                   exit_code, plan>>

SendReturn(r) ==
    /\ pc[r] = "send_wait"
    /\ chan[r] = <<>>
    /\ pc' = [pc EXCEPT ![r] = "finalize"]
    /\ UNCHANGED <<groupVars, planVars, sumVars, coordVars, chan, sends, stdout,
                   stderr, exit_code, plan>>

\* main, lines 192-201: rank 0 prints the result
Render ==
    /\ pc[0] = "render"
    /\ stdout' = print_pi(pi, digits[0], FracBits(precision[0]))
    /\ pc' = [pc EXCEPT ![0] = "finalize"]
    /\ UNCHANGED <<groupVars, planVars, sumVars, coordVars, chan, sends, stderr,
                   exit_code, plan>>

\* main, lines 203-207
Finalize(r) ==
    /\ pc[r] = "finalize"
    /\ pc' = [pc EXCEPT ![r] = "done"]
    /\ exit_code' = [exit_code EXCEPT ![r] = 0]
    /\ UNCHANGED <<groupVars, planVars, sumVars, coordVars, chan, sends, stdout,
                   stderr, plan>>

Next ==
    \/ \E r \in Ranks : Start(r)
    \/ \E r \in Ranks : ComputeLocalSum(r)
    \/ AggregateBegin
    \/ Recv
    \/ AggregateEnd
    \/ \E r \in Ranks : Send(r)
    \/ \E r \in Ranks : SendReturn(r)
    \/ Render
    \/ \E r \in Ranks : Finalize(r)

Spec == Init /\ [][Next]_vars

\* every rank is scheduled again and again
Fairness == \A r \in 0..(MaxSize - 1) :
    WF_vars(r \in Ranks /\ (\/ Start(r) \/ ComputeLocalSum(r) \/ Send(r)
                            \/ SendReturn(r) \/ Finalize(r)
                            \/ (r = 0 /\ (\/ AggregateBegin \/ Recv
                                          \/ AggregateEnd \/ Render))))

FairSpec == Spec /\ Fairness

(***************************************************************************)
(* compute_local_sum alone, as a function of its arguments: every rank of  *)
(* a group runs it once for a number of terms that is an input.            *)
(***************************************************************************)
MaxPartSize == 4

MaxPartTerms == 6

PartInit ==
    /\ \E n \in 1..MaxPartSize, t \in 0..MaxPartTerms :
        InitGroup(n, 1, "compute", 1, calculate_precision(1), t)
    /\ plan = NoPlan

PartNext == \E r \in Ranks : ComputeLocalSum(r)

PartSpec == PartInit /\ [][PartNext]_vars

(***************************************************************************)
(* compute_local_sum and aggregate_results together, as functions of their *)
(* arguments: lines 184-207 of main, run by a group for a number of terms  *)
(* that is an input (main itself never plans fewer than 11 terms).         *)
(***************************************************************************)
CoreNext ==
    \/ \E r \in Ranks : ComputeLocalSum(r)
    \/ AggregateBegin
    \/ Recv
    \/ AggregateEnd
    \/ \E r \in Ranks : Send(r)
    \/ \E r \in Ranks : SendReturn(r)
    \/ Render
    \/ \E r \in Ranks : Finalize(r)

CoreSpec == PartInit /\ [][CoreNext]_vars

(***************************************************************************)
(* The precision planner alone, lines 172-175 of main, for arguments over  *)
(* the whole range of int: the small ones and the ones next to INT_MAX.    *)
(***************************************************************************)
MaxPlanDigits == 40

PlanInputs == (1..MaxPlanDigits) \cup {IntMax - i : i \in 0..MaxPlanDigits}

PlanInit ==
    /\ InitGroup(1, 1, "start", DefaultDigits, 0, 0)
    /\ \E d \in PlanInputs :
        plan = [stage |-> "input", digits |-> d, precision |-> <<>>,
                num_terms |-> 0]

PlanStep ==
    /\ plan.stage = "input"
    /\ \E nt \in calculate_num_terms(plan.digits) :
        plan' = [stage     |-> IF nt.trap THEN "trapped" ELSE "planned",
                 digits    |-> plan.digits,
                 precision |-> calculate_precision_big(plan.digits),
                 num_terms |-> nt.val]
    /\ UNCHANGED <<groupVars, pc, planVars, sumVars, coordVars, chan, sends,
                   stdout, stderr, exit_code>>

PlanSpec == PlanInit /\ [][PlanStep]_vars

(***************************************************************************)
(* Properties.                                                             *)
(***************************************************************************)
Valid == arg >= 1

Computed(r) == pc[r] \notin {"start", "compute"}

Seq1To(n) == [i \in 1..n |-> i]

\* the places <<r, i>> at which index k was handed to compute_bbp_term
Visits(k) == UNION {{<<r, i>> : i \in {j \in 1..Len(visited[r]) :
                                            visited[r][j] = k}} : r \in Ranks}

\* C1 (partition completeness): the indices the ranks of a group visit in
\* compute_local_sum are all below num_terms and no index is visited twice,
\* by one rank or by two; once every rank has run its loop, every index of
\* 0 .. num_terms-1 has been visited exactly once.
PartitionComplete ==
    /\ \A r \in Ranks : \A i \in 1..Len(visited[r]) :
          /\ visited[r][i] \in 0..(num_terms[r] - 1)
          /\ Cardinality(Visits(visited[r][i])) = 1
    /\ (\A r \in Ranks : Computed(r)) =>
          \A k \in 0..(num_terms[0] - 1) : Cardinality(Visits(k)) = 1

PartitionWitness ==
    /\ size = 3
    /\ num_terms[0] = 5
    /\ \A r \in Ranks : Computed(r)
    /\ visited[1] = <<1, 4>>

\* pi after the values of `seq` from place i on have been added to acc
SumFrom[acc \in Mpfs, seq \in Seq(Mpfs), i \in Nat] ==
    IF i > Len(seq) THEN acc ELSE SumFrom[mpf_add[acc, seq[i]], seq, i + 1]

\* what rank 0 reads of the partial sum of rank r
Transported(r) ==
    mpf_set_str[SendBuffer(local_sum[r], digits[r], FracBits(precision[r])),
                FracBits(precision[0])]

Aggregated == pc[0] \in {"render", "finalize", "done"}

\* C2 (aggregation barrier): when rank 0 has left aggregate_results on a valid
\* run it has received size-1 messages, the i-th from rank i, and pi is its
\* own partial sum with the transported sum of every other rank added once.
AggregationBarrier ==
    (Valid /\ Aggregated) =>
        /\ recvs = Seq1To(size - 1)
        /\ addends = [i \in 1..(size - 1) |-> Transported(i)]
        /\ \A r \in Ranks : Computed(r) /\ chan[r] = <<>>
        /\ pi = SumFrom[local_sum[0], addends, 1]

AggregationWitness ==
    /\ Valid
    /\ size = 3
    /\ pc[0] = "render"
    /\ Len(addends) = 2

\* C5 (transport protocol): on a valid run a rank other than 0 sends at most
\* once, to rank 0, only after compute_local_sum has returned, and has sent
\* once when it is done; rank 0 never sends; no message is addressed to a rank
\* other than 0; the i-th receive of rank 0 is matched to rank i, whatever the
\* order of the sends, and there are size-1 of them when rank 0 is done.
TransportProtocol ==
    Valid =>
        /\ sends[0] = <<>>
        /\ \A r \in Ranks \ {0} :
              /\ sends[r] \in {<<>>, <<0>>}
              /\ sends[r] # <<>> => Computed(r)
              /\ pc[r] \in {"send_wait", "finalize", "done"} => sends[r] = <<0>>
              /\ \A i \in 1..Len(chan[r]) : chan[r][i].dest = 0
        /\ Len(recvs) <= size - 1
        /\ recvs = Seq1To(Len(recvs))
        /\ Aggregated => Len(recvs) = size - 1

\* rank 2 has sent and rank 1 has not: rank 0 is in its first receive and
\* leaves the message of rank 2 alone
TransportWitness ==
    /\ Valid
    /\ size = 3
    /\ pc[0] = "recv"
    /\ recvs = <<>>
    /\ sends[1] = <<>>
    /\ sends[2] = <<0>>
    /\ chan[2] # <<>>

\* C7 (buffer provisioning): the record a rank other than 0 writes into its
\* buffer (integer digit, point, digits+20 digits, NUL) is no longer than the
\* buffer of digits+100 bytes, and the count of every message in flight is no
\* more than the count digits+100 of rank 0's receive.
BufferFits ==
    Valid =>
        \A r \in Ranks \ {0} :
            /\ Computed(r) =>
                  LET buffer == SendBuffer(local_sum[r], digits[r],
                                           FracBits(precision[r]))
                  IN  /\ strlen(buffer) + 1 <= BufferSize(digits[r])
                      /\ strlen(buffer) = SendDigits(digits[r]) + 2
            /\ \A i \in 1..Len(chan[r]) :
                  /\ chan[r][i].count = strlen(chan[r][i].data) + 1
                  /\ chan[r][i].count <= BufferSize(arg)

BufferWitness ==
    /\ Valid
    /\ size = 3
    /\ chan[1] # <<>>
    /\ chan[2] # <<>>
    /\ chan[2][1].count = arg + 23

\* |x - y| < 10^-d for mpf values of f bits after the point
CloserThan(x, y, d, f) ==
    BigLess(BigMulPow10[mpf_sub[x, y].mag, d], BigShl[<<1>>, f])

\* C8 (round trip): every value rank 0 has read from a message differs from
\* the partial sum that was written into it by less than 10^-digits.
RoundTrip ==
    \A i \in 1..Len(addends) :
        CloserThan(addends[i], local_sum[recvs[i]], arg, FracBits(precision[0]))

\* a partial sum has gone through the transport and come out changed
RoundTripWitness ==
    /\ Len(addends) = 2
    /\ addends[1] # local_sum[1]
    /\ local_sum[1].mag # <<>>

\* the digits a group of one rank prints for d digits: its pi is the sum of
\* all the terms, added in order by rank 0 alone
SerialDigits(d) ==
    LET f == FracBits(calculate_precision(d))
        t == (CHOOSE nt \in calculate_num_terms(d) : ~nt.trap).val
    IN  print_pi(compute_local_sum(0, 1, t, f).sum, d, f)

\* C6 (group-size independence): the digits rank 0 prints on a valid run are
\* the digits the run of a single rank prints for the same argument.
GroupSizeIndependent ==
    (Valid /\ pc[0] \in {"finalize", "done"}) =>
        /\ Len(stdout) = arg
        /\ stdout = SerialDigits(arg)

GroupSizeWitness ==
    /\ Valid
    /\ size = 3
    /\ arg = 2
    /\ pc[0] = "done"
    /\ stdout = <<"1", "4">>
    /\ pi # compute_local_sum(0, 1, num_terms[0], FracBits(precision[0])).sum

AllExited(code) == \A r \in Ranks : pc[r] = "done" /\ exit_code[r] = code

\* C3 (termination): on a valid run, with every rank scheduled fairly and
\* each send either buffered or completed by its receive, every rank ends
\* with exit code 0; and no state other than the final one is without a step.
Termination ==
    /\ Valid ~> AllExited(0)
    /\ [](Valid => (AllExited(0) \/ ENABLED Next))

TerminationWitness ==
    /\ Valid
    /\ size = 3
    /\ AllExited(0)
    /\ recvs = <<1, 2>>

\* C4 (invalid input): on a run with an argument below 1 no rank computes a
\* term, sends, receives or prints digits; a rank is either still at the
\* start or has ended with exit code 1; the usage message is printed by rank
\* 0 alone, once; and, the ranks scheduled fairly, every rank ends with exit
\* code 1.
InvalidSafe ==
    arg < 1 =>
        /\ \A r \in Ranks :
              /\ pc[r] \in {"start", "done"}
              /\ exit_code[r] = (IF pc[r] = "done" THEN 1 ELSE -1)
              /\ visited[r] = <<>>
              /\ sends[r] = <<>>
              /\ chan[r] = <<>>
        /\ recvs = <<>>
        /\ stdout = <<>>
        /\ stderr = (IF pc[0] = "done" THEN <<0>> ELSE <<>>)

InvalidInputExits ==
    /\ []InvalidSafe
    /\ arg < 1 ~> (AllExited(1) /\ stderr = <<0>>)

InvalidWitness ==
    /\ arg = 0
    /\ size = 3
    /\ AllExited(1)
    /\ stderr = <<0>>

\* the record gmp_sprintf writes for zero: "0.", then n zeros
ZeroRecord(n) == <<"0", ".">> \o [i \in 1..n |-> "0"]

Min(a, b) == IF a < b THEN a ELSE b

\* C9 (empty ranks): a rank whose number is not below the number of terms
\* evaluates no term and its sum is zero; if it is a worker it still sends
\* one message, to rank 0, whose record is that of zero and which rank 0
\* reads as zero; and the pi of rank 0 is its own sum plus the transported
\* sums of the other ranks below the number of terms, and of no others.
EmptyRanks ==
    /\ \A r \in Ranks : (r >= num_terms[r] /\ Computed(r)) =>
          /\ visited[r] = <<>>
          /\ local_sum[r] = [neg |-> FALSE, mag |-> <<>>]
          /\ (r # 0 /\ pc[r] # "aggregate") =>
                /\ sends[r] = <<0>>
                /\ IF r <= Len(recvs)
                   THEN recvs[r] = r /\ addends[r] = [neg |-> FALSE, mag |-> <<>>]
                   ELSE /\ Len(chan[r]) = 1
                        /\ chan[r][1].data = ZeroRecord(SendDigits(digits[r]))
    /\ pc[0] \in {"render", "finalize", "done"} =>
          pi = SumFrom[local_sum[0],
                       [r \in 1..(Min(size, num_terms[0]) - 1) |-> Transported(r)],
                       1]

EmptyRanksWitness ==
    /\ size = 4
    /\ num_terms[0] = 2
    /\ pc[0] = "done"
    /\ recvs = <<1, 2, 3>>
    /\ visited[3] = <<>>
    /\ addends[3].mag = <<>>
    /\ addends[1].mag # <<>>
    /\ pi = mpf_add[local_sum[0], addends[1]]

\* C10 (precision plan), as the claim states it for every int above 0: the
\* plan is made without failure, the number of terms is the digits plus 10
\* and above the digits, the bits are floor(3.5 * digits) + 64, and
\* 10^digits < 2^bits (compared for the digits up to MaxPlanDigits).
PrecisionPlan ==
    plan.stage # "input" =>
        /\ plan.stage = "planned"
        /\ plan.num_terms > plan.digits
        /\ plan.num_terms - plan.digits = 10
        /\ BigAdd[BigMulSmall[plan.precision, 2], BigOfNat[plan.digits % 2]]
             = BigAdd[BigMulSmall[BigOfNat[plan.digits], 7], BigOfNat[128]]
        /\ plan.digits <= MaxPlanDigits =>
              BigLess(BigMulPow10[<<1>>, plan.digits],
                      BigShl[<<1>>, BigToNat[plan.precision]])

====
